---------------------------- MODULE Spec2Model ----------------------------
(***************************************************************************)
(* DocRot: the documentation rot detection engine of src/docrot.py.        *)
(*                                                                         *)
(* Text is modelled at the character level: a string is a sequence of      *)
(* one-character strings, so that the regular expressions and the string   *)
(* methods of the source are computed on characters, as the source does.   *)
(* A path below the repository root is a sequence of components, each a    *)
(* character sequence.  Nothing exists outside the repository root.        *)
(***************************************************************************)
EXTENDS Integers, Sequences, FiniteSets, TLC

VARIABLES
    fs,            \* the filesystem below the root: path -> [kind, text]
    doc,           \* path of the document handed to scan_doc / detect
    check_urls,    \* the URL-check flag
    net,           \* the URLs a HEAD probe reaches (the network's answer)
    issues,        \* the issues of the last scan (ScanResult.issues)
    probed,        \* the URLs handed to _url_ok so far, in order
    pc,            \* position of the operation under way
    max_docs,      \* scan_repo's ceiling
    pat,           \* scan_repo: index of the glob pattern of the outer loop
    queue,         \* scan_repo: what is left of sorted(root.glob(pat))
    docs_scanned,  \* ScanResult.docs_scanned
    processed,     \* history: the documents handed to scan_doc by scan_repo
    commands,      \* CliCommandDetector.commands ([set |-> FALSE] is None)
    built_absent   \* history: the detector was constructed with no schema file

repoVars == <<max_docs, pat, queue, docs_scanned, processed>>

detVars == <<commands, built_absent>>

vars == <<fs, doc, check_urls, net, issues, probed, pc, repoVars, detVars>>

-----------------------------------------------------------------------------
(* Characters and strings *)

LowerChars == {"a","b","c","d","e","f","g","h","i","j","k","l","m",
               "n","o","p","q","r","s","t","u","v","w","x","y","z"}

UpperChars == {"A","B","C","D","E","F","G","H","I","J","K","L","M",
               "N","O","P","Q","R","S","T","U","V","W","X","Y","Z"}

DigitChars == {"0","1","2","3","4","5","6","7","8","9"}

\* \w of the re module
WordChars == LowerChars \cup UpperChars \cup DigitChars \cup {"_"}

\* \s of the re module, and what str.strip() removes
SpaceChars == {" ", "\t", "\n", "\r", "\f"}

\* The backtick character (a string literal of the module cannot hold it)
BT == "BACKTICK"

\* the three backticks of a fence
Fence == <<BT, BT, BT>>

Min(S) == CHOOSE x \in S : \A y \in S : x <= y

StartsWithAt(s, p, t) ==
    /\ p >= 1
    /\ p + Len(t) - 1 <= Len(s)
    /\ \A k \in 1..Len(t) : s[p + k - 1] = t[k]

\* str.startswith
StartsWith(s, t) == StartsWithAt(s, 1, t)

\* str.endswith
EndsWith(s, t) == Len(t) <= Len(s) /\ StartsWithAt(s, Len(s) - Len(t) + 1, t)

\* first index >= p whose character is outside class S (Len(s)+1 if none):
\* where a greedy S* started at p stops
SpanEnd(s, p, S) ==
    LET stops == {i \in p..Len(s) : s[i] \notin S}
    IN  IF stops = {} THEN Len(s) + 1 ELSE Min(stops)

\* first index >= p whose character is in class S (Len(s)+1 if none):
\* where a greedy [^S]* started at p stops
FirstIn(s, p, S) ==
    LET hits == {i \in p..Len(s) : s[i] \in S}
    IN  IF hits = {} THEN Len(s) + 1 ELSE Min(hits)

\* first index >= p where t starts (Len(s)+1 if none)
FirstAt(s, p, t) ==
    LET hits == {i \in p..Len(s) : StartsWithAt(s, i, t)}
    IN  IF hits = {} THEN Len(s) + 1 ELSE Min(hits)

\* str.split(c) for a one-character separator
RECURSIVE Split(_, _)
Split(s, c) ==
    LET i == FirstIn(s, 1, {c})
    IN  IF i > Len(s) THEN <<s>>
        ELSE <<SubSeq(s, 1, i - 1)>> \o Split(SubSeq(s, i + 1, Len(s)), c)

\* c.join(parts)
RECURSIVE Join(_, _)
Join(parts, c) ==
    IF parts = <<>> THEN <<>>
    ELSE IF Len(parts) = 1 THEN parts[1]
    ELSE parts[1] \o <<c>> \o Join(Tail(parts), c)

\* str.lstrip()
LStrip(s) == SubSeq(s, SpanEnd(s, 1, SpaceChars), Len(s))

\* str.strip()
Strip(s) ==
    LET l == LStrip(s)
        keep == {i \in 1..Len(l) : l[i] \notin SpaceChars}
    IN  IF keep = {} THEN <<>>
        ELSE SubSeq(l, 1, CHOOSE i \in keep : \A j \in keep : j <= i)

\* str.replace(a, b) for one-character a and b
ReplaceChar(s, a, b) == [i \in 1..Len(s) |-> IF s[i] = a THEN b ELSE s[i]]

\* str.count(c) for a one-character c
CountChar(s, c) == Cardinality({i \in 1..Len(s) : s[i] = c})


-----------------------------------------------------------------------------
(* The filesystem, as pathlib and the operating system read it *)

\* the parts pathlib keeps of a relative path string: empty and "."
\* components are dropped, ".." is kept
PathParts(s) == SelectSeq(Split(s, "/"), LAMBDA c : c # <<>> /\ c # <<".">>)

IsFile(f, p) == p \in DOMAIN f /\ f[p].kind = "file"

\* a directory: the root, a directory entry, or a proper prefix of an entry
IsDir(f, p) ==
    \/ p = <<>>
    \/ p \in DOMAIN f /\ f[p].kind = "dir"
    \/ \E q \in DOMAIN f : Len(q) > Len(p) /\ SubSeq(q, 1, Len(p)) = p

\* Path.exists() of a path already normalised
Exists(f, p) == IsFile(f, p) \/ IsDir(f, p)

\* Path.exists() of base / parts: the operating system walks the components,
\* each one looked up in a directory that must exist
RECURSIVE StatExists(_, _, _)
StatExists(f, cur, parts) ==
    IF parts = <<>> THEN Exists(f, cur)
    ELSE IF ~IsDir(f, cur) THEN FALSE
    ELSE IF Head(parts) = <<".", ".">>
         THEN IF cur = <<>> THEN FALSE
              ELSE StatExists(f, SubSeq(cur, 1, Len(cur) - 1), Tail(parts))
    ELSE StatExists(f, Append(cur, Head(parts)), Tail(parts))

\* Path.resolve().exists() of base / parts: with no symbolic links resolve()
\* removes ".." lexically, whether or not the component before it exists
RECURSIVE ResolveExists(_, _, _)
ResolveExists(f, cur, parts) ==
    IF parts = <<>> THEN Exists(f, cur)
    ELSE IF Head(parts) = <<".", ".">>
         THEN IF cur = <<>> THEN FALSE
              ELSE ResolveExists(f, SubSeq(cur, 1, Len(cur) - 1), Tail(parts))
    ELSE ResolveExists(f, Append(cur, Head(parts)), Tail(parts))

\* Path.read_text() returns (a directory or a missing file raises OSError)
Readable(f, p) == IsFile(f, p)

-----------------------------------------------------------------------------
(* Issue and the patterns of scan_doc *)

Issue(file, line, kind, message) ==
    [file |-> file, line |-> line, kind |-> kind, message |-> message,
     severity |-> "warning"]

\* LINK_RE.match at position p: \[([^\]]*)\]\(([^)]+)\)
LinkMatchAt(s, p) ==
    LET rb == FirstIn(s, p + 1, {"]"})
        rp == FirstIn(s, rb + 2, {")"})
    IN  IF /\ p <= Len(s) /\ s[p] = "["
           /\ rb <= Len(s)
           /\ rb + 1 <= Len(s) /\ s[rb + 1] = "("
           /\ rp <= Len(s) /\ rp > rb + 2
        THEN [ok |-> TRUE, href |-> SubSeq(s, rb + 2, rp - 1), end |-> rp]
        ELSE [ok |-> FALSE, href |-> <<>>, end |-> p]

\* [m.group(2) for m in LINK_RE.finditer(s)], searching from position p
RECURSIVE FindLinks(_, _)
FindLinks(s, p) ==
    IF p > Len(s) THEN <<>>
    ELSE LET m == LinkMatchAt(s, p)
         IN  IF m.ok THEN <<m.href>> \o FindLinks(s, m.end + 1)
             ELSE FindLinks(s, p + 1)

ModChars == WordChars \cup {"."}

\* IMPORT_RE.match at position p:
\* (?:from\s+([\w.]+)\s+import|import\s+([\w.]+)); mod is group 1 or group 2
ImportMatchAt(s, p) ==
    LET kwFrom == <<"f","r","o","m">>
        kwImport == <<"i","m","p","o","r","t">>
        a1 == SpanEnd(s, p + 4, SpaceChars)
        a2 == SpanEnd(s, a1, ModChars)
        a3 == SpanEnd(s, a2, SpaceChars)
        b1 == SpanEnd(s, p + 6, SpaceChars)
        b2 == SpanEnd(s, b1, ModChars)
    IN  IF /\ StartsWithAt(s, p, kwFrom)
           /\ a1 > p + 4 /\ a2 > a1 /\ a3 > a2
           /\ StartsWithAt(s, a3, kwImport)
        THEN [ok |-> TRUE, mod |-> SubSeq(s, a1, a2 - 1), end |-> a3 + 5]
        ELSE IF StartsWithAt(s, p, kwImport) /\ b1 > p + 6 /\ b2 > b1
        THEN [ok |-> TRUE, mod |-> SubSeq(s, b1, b2 - 1), end |-> b2 - 1]
        ELSE [ok |-> FALSE, mod |-> <<>>, end |-> p]

\* [m.group(1) or m.group(2) for m in IMPORT_RE.finditer(s)], from position p
RECURSIVE FindImports(_, _)
FindImports(s, p) ==
    IF p > Len(s) THEN <<>>
    ELSE LET m == ImportMatchAt(s, p)
         IN  IF m.ok THEN <<m.mod>> \o FindImports(s, m.end + 1)
             ELSE FindImports(s, p + 1)

\* CODE_BLOCK_RE.match at position p: three backticks, \w*, \n, a lazy
\* (.*?) under DOTALL, three backticks
CodeBlockMatchAt(s, p) ==
    LET fence == Fence
        nl == SpanEnd(s, p + 3, WordChars)
        close == FirstAt(s, nl + 1, fence)
    IN  IF /\ StartsWithAt(s, p, fence)
           /\ nl <= Len(s) /\ s[nl] = "\n"
           /\ close <= Len(s)
        THEN [ok |-> TRUE, start |-> p, body |-> SubSeq(s, nl + 1, close - 1),
              end |-> close + 2]
        ELSE [ok |-> FALSE, start |-> p, body |-> <<>>, end |-> p]

\* the matches of CODE_BLOCK_RE.finditer(s), searching from position p
RECURSIVE FindCodeBlocks(_, _)
FindCodeBlocks(s, p) ==
    IF p > Len(s) THEN <<>>
    ELSE LET m == CodeBlockMatchAt(s, p)
         IN  IF m.ok THEN <<m>> \o FindCodeBlocks(s, m.end + 1)
             ELSE FindCodeBlocks(s, p + 1)

_mod_exists(f, mod) ==
    LET mp == ReplaceChar(mod, ".", "/")
        suffixes == {<<".","p","y">>, <<".","g","o">>, <<".","t","s">>,
                     <<".","r","s">>, <<>>}
    IN  \E suf \in suffixes : StatExists(f, <<>>, PathParts(mp \o suf))

\* _url_ok: the answer of the network to a HEAD probe
_url_ok(reach, url) == url \in reach


-----------------------------------------------------------------------------
(* scan_doc *)

NoIssues == [issues |-> <<>>, probed |-> <<>>]

Both(a, b) == [issues |-> a.issues \o b.issues, probed |-> a.probed \o b.probed]

\* href.split('#')[0].split('?')[0]
LinkTarget(href) == Split(Split(href, "#")[1], "?")[1]

IsExternal(href) ==
    \/ StartsWith(href, <<"h","t","t","p",":","/","/">>)
    \/ StartsWith(href, <<"h","t","t","p","s",":","/","/">>)

IsMailOrFragment(href) ==
    \/ StartsWith(href, <<"m","a","i","l","t","o",":">>)
    \/ StartsWith(href, <<"#">>)

\* the branches of scan_doc taken for one match of LINK_RE on line i;
\* ctx holds the call's arguments: file (rel), dir (the document's parent),
\* fs, check_urls and net
LinkIssueDropsRootFallback(href, i, ctx) ==
    LET target == LinkTarget(href)
    IN  IF IsExternal(href)
        THEN IF ctx.check_urls
             THEN [issues |-> IF _url_ok(ctx.net, href) THEN <<>>
                              ELSE <<Issue(ctx.file, i, "dead_url",
                                           <<"URL error: ", href>>)>>,
                   probed |-> <<href>>]
             ELSE NoIssues
        ELSE IF ~IsMailOrFragment(href)
                /\ target # <<>>
                /\ ~ResolveExists(ctx.fs, ctx.dir, PathParts(target))
        THEN [issues |-> <<Issue(ctx.file, i, "broken_link",
                                 <<"Broken link: ", target>>)>>,
              probed |-> <<>>]
        ELSE NoIssues

LinkIssueAlwaysProbes(href, i, ctx) ==
    LET target == LinkTarget(href)
    IN  IF IsExternal(href)
        THEN [issues |-> IF _url_ok(ctx.net, href) THEN <<>>
                         ELSE <<Issue(ctx.file, i, "dead_url",
                                      <<"URL error: ", href>>)>>,
              probed |-> <<href>>]
        ELSE IF ~IsMailOrFragment(href)
                /\ target # <<>>
                /\ ~ResolveExists(ctx.fs, ctx.dir, PathParts(target))
                /\ ~StatExists(ctx.fs, <<>>, PathParts(target))
        THEN [issues |-> <<Issue(ctx.file, i, "broken_link",
                                 <<"Broken link: ", target>>)>>,
              probed |-> <<>>]
        ELSE NoIssues

LinkIssue(href, i, ctx) ==
    LET target == LinkTarget(href)
    IN  IF IsExternal(href)
        THEN IF ctx.check_urls
             THEN [issues |-> IF _url_ok(ctx.net, href) THEN <<>>
                              ELSE <<Issue(ctx.file, i, "dead_url",
                                           <<"URL error: ", href>>)>>,
                   probed |-> <<href>>]
             ELSE NoIssues
        ELSE IF ~IsMailOrFragment(href)
                /\ target # <<>>
                /\ ~ResolveExists(ctx.fs, ctx.dir, PathParts(target))
                /\ ~StatExists(ctx.fs, <<>>, PathParts(target))
        THEN [issues |-> <<Issue(ctx.file, i, "broken_link",
                                 <<"Broken link: ", target>>)>>,
              probed |-> <<>>]
        ELSE NoIssues

\* for m in LINK_RE.finditer(line): ...
RECURSIVE LinkIssues(_, _, _)
LinkIssues(hrefs, i, ctx) ==
    IF hrefs = <<>> THEN NoIssues
    ELSE Both(LinkIssue(Head(hrefs), i, ctx), LinkIssues(Tail(hrefs), i, ctx))

\* the issues of the unresolved modules among mods, all of one kind and line
RECURSIVE ImportIssues(_, _, _, _, _)
ImportIssues(mods, i, kind, prefix, ctx) ==
    IF mods = <<>> THEN <<>>
    ELSE (IF Head(mods) # <<>> /\ ~_mod_exists(ctx.fs, Head(mods))
          THEN <<Issue(ctx.file, i, kind, <<prefix, Head(mods)>>)>>
          ELSE <<>>)
         \o ImportIssues(Tail(mods), i, kind, prefix, ctx)

\* the body of the loop over the lines, for a line outside fenced blocks
LineIssues(line, i, ctx) ==
    Both(LinkIssues(FindLinks(line, 1), i, ctx),
         [issues |-> ImportIssues(FindImports(line, 1), i, "stale_symbol",
                                  "Module not found: ", ctx),
          probed |-> <<>>])

\* for i, line in enumerate(text.split('\n'), 1): ..., from line i on
RECURSIVE LinePass(_, _, _, _)
LinePass(lines, i, in_block, ctx) ==
    IF i > Len(lines) THEN NoIssues
    ELSE IF StartsWith(lines[i], Fence)
         THEN LinePass(lines, i + 1, ~in_block, ctx)
    ELSE IF in_block THEN LinePass(lines, i + 1, in_block, ctx)
    ELSE Both(LineIssues(lines[i], i, ctx),
              LinePass(lines, i + 1, in_block, ctx))

\* for m in CODE_BLOCK_RE.finditer(text): ..., over the matches ms
RECURSIVE BlockPass(_, _, _)
BlockPass(ms, text, ctx) ==
    IF ms = <<>> THEN <<>>
    ELSE LET m == Head(ms)
             ln == CountChar(SubSeq(text, 1, m.start - 1), "\n") + 2
         IN  ImportIssues(FindImports(m.body, 1), ln, "code_drift",
                          "Code block refs missing: ", ctx)
             \o BlockPass(Tail(ms), text, ctx)

\* scan_doc(doc_path, root, check_urls) of a readable document: the issues it
\* returns and the URLs it probes
scan_doc(f, doc_path, chk, reach) ==
    LET text == f[doc_path].text
        ctx == [file |-> Join(doc_path, "/"),
                dir |-> SubSeq(doc_path, 1, Len(doc_path) - 1),
                fs |-> f, check_urls |-> chk, net |-> reach]
        lp == LinePass(Split(text, "\n"), 1, FALSE, ctx)
    IN  [issues |-> lp.issues \o BlockPass(FindCodeBlocks(text, 1), text, ctx),
         probed |-> lp.probed]


-----------------------------------------------------------------------------
(* Inputs of scan_doc: documents built from a few lines, in a small tree *)

MaxLines == 4

\* names of the tree
n_d == <<"d">>
n_s == <<"s">>
n_g_md == <<"g",".","m","d">>
n_b_md == <<"b",".","m","d">>
n_r_md == <<"r",".","m","d">>
n_h_py == <<"h",".","p","y">>

File(text) == [kind |-> "file", text |-> text]

Dir == [kind |-> "dir", text |-> <<>>]

\* the tree around a document at path p with text t: d/b.md, r.md, s/h.py
TreeWith(p, t) ==
    (<<n_d, n_b_md>> :> File(<<>>)) @@ (<<n_r_md>> :> File(<<>>))
    @@ (<<n_s, n_h_py>> :> File(<<>>)) @@ (p :> File(t))

DocPaths == {<<n_g_md>>, <<n_d, n_g_md>>}

l_fence == <<BT,BT,BT>>
l_fence_py == <<BT,BT,BT,"p","y">>
l_fence_cpp == <<BT,BT,BT,"c","+","+">>
l_fence_inline == <<"x"," ",BT,BT,BT>>
l_import_m == <<"i","m","p","o","r","t"," ","m">>
l_from_m == <<"f","r","o","m"," ","m",".","n"," ","i","m","p","o","r","t"," ","g">>
l_from_s_h == <<"f","r","o","m"," ","s",".","h"," ","i","m","p","o","r","t"," ","g">>
l_plain == <<"t","e","x","t">>

ImportLines == {l_fence, l_fence_py, l_fence_cpp, l_fence_inline,
                l_import_m, l_from_m, l_from_s_h, l_plain}

\* the sequences of 1..n elements of S
SeqsUpTo(S, n) == UNION {[1..k -> S] : k \in 1..n}

\* a document's text: its lines, each ended by a newline
TextOf(lines) == Join(lines, "\n") \o <<"\n">>

NoCommands == [set |-> FALSE, map |-> <<>>]

\* the variables an operation does not use
IdleRepo ==
    /\ max_docs = 0 /\ pat = 0 /\ queue = <<>> /\ docs_scanned = 0
    /\ processed = <<>>

IdleDetector == commands = NoCommands /\ built_absent = FALSE

InitDoc ==
    /\ \E p \in DocPaths, ls \in SeqsUpTo(ImportLines, MaxLines) :
          /\ doc = p
          /\ fs = TreeWith(p, TextOf(ls))
    /\ check_urls = FALSE
    /\ net = {}
    /\ issues = <<>>
    /\ probed = <<>>
    /\ pc = "ready"
    /\ IdleRepo
    /\ IdleDetector

\* a call of scan_doc on the document
ScanDoc ==
    /\ pc = "ready"
    /\ Readable(fs, doc)
    /\ LET r == scan_doc(fs, doc, check_urls, net)
       IN  /\ issues' = r.issues
           /\ probed' = probed \o r.probed
    /\ pc' = "scanned"
    /\ UNCHANGED <<fs, doc, check_urls, net, repoVars, detVars>>

NextDoc == ScanDoc

SpecDoc == InitDoc /\ [][NextDoc]_vars

-----------------------------------------------------------------------------
(* The fence tracker of the specification, stated independently of the scans *)

IsFenceLine(line) == StartsWith(line, Fence)

FencesBefore(lines, i) == Cardinality({j \in 1..(i - 1) : IsFenceLine(lines[j])})

\* line i is outside every fenced block
Outside(lines, i) == ~IsFenceLine(lines[i]) /\ FencesBefore(lines, i) % 2 = 0

\* the complete fenced blocks: <<opening fence line, closing fence line>>
Blocks(lines) ==
    {b \in (1..Len(lines)) \X (1..Len(lines)) :
        /\ b[1] < b[2]
        /\ IsFenceLine(lines[b[1]]) /\ IsFenceLine(lines[b[2]])
        /\ FencesBefore(lines, b[1]) % 2 = 0
        /\ \A j \in (b[1] + 1)..(b[2] - 1) : ~IsFenceLine(lines[j])}

\* the text of the member lines of block b
RECURSIVE BodyOf(_, _, _)
BodyOf(lines, from, to) ==
    IF from > to THEN <<>>
    ELSE lines[from] \o <<"\n">> \o BodyOf(lines, from + 1, to)

CountOf(seq, x) == Cardinality({k \in 1..Len(seq) : seq[k] = x})

CountIssues(kind, mod) ==
    Cardinality({k \in 1..Len(issues) :
                    issues[k].kind = kind /\ issues[k].message[2] = mod})

DocLines == Split(fs[doc].text, "\n")

\* the import-like references on the lines outside fenced blocks
RECURSIVE OutsideRefs(_, _)
OutsideRefs(lines, i) ==
    IF i > Len(lines) THEN <<>>
    ELSE (IF Outside(lines, i) THEN FindImports(lines[i], 1) ELSE <<>>)
         \o OutsideRefs(lines, i + 1)

\* the import-like references inside complete fenced blocks, from line i on
RECURSIVE InsideRefs(_, _)
InsideRefs(lines, i) ==
    IF i > Len(lines) THEN <<>>
    ELSE (IF \E b \in Blocks(lines) : b[1] = i
          THEN LET b == CHOOSE b \in Blocks(lines) : b[1] = i
               IN  FindImports(BodyOf(lines, b[1] + 1, b[2] - 1), 1)
          ELSE <<>>)
         \o InsideRefs(lines, i + 1)

Range(seq) == {seq[k] : k \in 1..Len(seq)}

\* C3: an unresolved import-like reference yields a stale_symbol issue and no
\* code_drift issue when it is on a line outside fenced blocks, and a
\* code_drift issue and no stale_symbol issue when it is inside a complete
\* fenced block, inside and outside being those of the fence tracker:
\* per module, the stale_symbol issues are as many as its references outside
\* and the code_drift issues as many as its references inside
C3_KindFollowsFenceTracker ==
    pc = "scanned" =>
        LET out == OutsideRefs(DocLines, 1)
            ins == InsideRefs(DocLines, 1)
        IN  \A mod \in Range(out) \cup Range(ins) :
                ~_mod_exists(fs, mod) =>
                    /\ CountIssues("stale_symbol", mod) = CountOf(out, mod)
                    /\ CountIssues("code_drift", mod) = CountOf(ins, mod)

\* the last line of the block opened at line j: the line before the next fence,
\* or the last line of the document
BlockEnd(lines, j) ==
    Min({i \in (j + 1)..Len(lines) : IsFenceLine(lines[i])} \cup {Len(lines) + 1}) - 1

\* C10: every code_drift issue carries the line after the opening fence of the
\* fenced block that contains the unresolved reference, and that line is a
\* line of the document
C10_DriftLineIsFirstContentLine ==
    pc = "scanned" =>
        \A k \in 1..Len(issues) :
            issues[k].kind = "code_drift" =>
                /\ issues[k].line \in 2..Len(DocLines)
                /\ LET open == issues[k].line - 1
                   IN  /\ IsFenceLine(DocLines[open])
                       /\ FencesBefore(DocLines, open) % 2 = 0
                       /\ issues[k].message[2] \in
                             Range(FindImports(
                                 BodyOf(DocLines, open + 1, BlockEnd(DocLines, open)), 1))


-----------------------------------------------------------------------------
(* scan_doc on documents of links *)

MaxLinkLines == 3

l_link_beside == <<"[","a","]","(","b",".","m","d",")">>
l_link_root == <<"[","a","]","(","r",".","m","d","?","q",")">>
l_link_missing == <<"[","a","]","(","n","o",".","m","d","#","x",")">>
l_link_twice == <<"[","a","]","(","n","o",".","m","d",")"," ","[","b","]","(","n","o",".","m","d",")">>
l_link_dotdot == <<"[","a","]","(","z","/",".",".","/","b",".","m","d",")">>
l_link_mail == <<"[","a","]","(","m","a","i","l","t","o",":","x",")"," ","[","b","]","(","#","t",")"," ","[","c","]","(","?","q",")">>
l_link_url == <<"[","a","]","(","h","t","t","p",":","/","/","u",")"," ","[","b","]","(","h","t","t","p","s",":","/","/","v","#","f",")">>

url_u == <<"h","t","t","p",":","/","/","u">>

LinkLines == {l_fence, l_link_beside, l_link_root, l_link_missing,
              l_link_twice, l_link_dotdot, l_link_mail, l_link_url}

InitLinks ==
    /\ \E p \in DocPaths, ls \in SeqsUpTo(LinkLines, MaxLinkLines) :
          /\ doc = p
          /\ fs = TreeWith(p, TextOf(ls))
    /\ \E c \in BOOLEAN, n \in {{}, {url_u}} :
          /\ c = FALSE => n = {}
          /\ check_urls = c
          /\ net = n
    /\ issues = <<>>
    /\ probed = <<>>
    /\ pc = "ready"
    /\ IdleRepo
    /\ IdleDetector

SpecLinks == InitLinks /\ [][NextDoc]_vars

\* a relative filesystem reference
IsRelativeRef(href) == ~IsExternal(href) /\ ~IsMailOrFragment(href)

DocDir == SubSeq(doc, 1, Len(doc) - 1)

\* the stripped target exists beside the document or at the root
TargetExists(t) ==
    \/ ResolveExists(fs, DocDir, PathParts(t))
    \/ StatExists(fs, <<>>, PathParts(t))

CountBroken(i, t) ==
    Cardinality({k \in 1..Len(issues) :
                    /\ issues[k].kind = "broken_link"
                    /\ issues[k].line = i
                    /\ issues[k].message[2] = t})

\* the links of line i that are relative references to target t
RelativeLinksTo(line, t) ==
    LET hrefs == FindLinks(line, 1)
    IN  {k \in 1..Len(hrefs) : IsRelativeRef(hrefs[k]) /\ LinkTarget(hrefs[k]) = t}

\* C4: on a line outside fenced blocks, every link to a relative target that
\* exists neither beside the document nor at the root has exactly one
\* broken_link issue, at the line of the link, and a link to a target that
\* exists at either place has none
C4_BrokenLinkIffTargetMissing ==
    pc = "scanned" =>
        \A i \in 1..Len(DocLines) :
            Outside(DocLines, i) =>
                \A h \in Range(FindLinks(DocLines[i], 1)) :
                    IsRelativeRef(h) =>
                        CountBroken(i, LinkTarget(h)) =
                            IF TargetExists(LinkTarget(h)) THEN 0
                            ELSE Cardinality(RelativeLinksTo(DocLines[i], LinkTarget(h)))

\* a scan that reported a broken link and passed a link whose target exists
\* only at the root
C4_Witness ==
    /\ pc = "scanned"
    /\ doc = <<n_d, n_g_md>>
    /\ \E i, j \in 1..Len(DocLines) :
          /\ Outside(DocLines, i) /\ DocLines[i] = l_link_missing
          /\ CountBroken(i, LinkTarget(FindLinks(l_link_missing, 1)[1])) = 1
          /\ Outside(DocLines, j) /\ DocLines[j] = l_link_root
          /\ \A k \in 1..Len(issues) : issues[k].line # j

\* C8: with URL checking disabled scan_doc probes no URL, and no link to an
\* http:// or https:// target has a dead_url or a broken_link issue
C8_NoProbeWhenDisabled ==
    (pc = "scanned" /\ ~check_urls) =>
        /\ probed = <<>>
        /\ \A k \in 1..Len(issues) :
              /\ issues[k].kind # "dead_url"
              /\ issues[k].kind = "broken_link" => ~IsExternal(issues[k].message[2])

\* a scan with URL checking disabled of a document with external links on a
\* line outside fenced blocks
C8_Witness ==
    /\ pc = "scanned"
    /\ ~check_urls
    /\ \E i \in 1..Len(DocLines) :
          /\ Outside(DocLines, i)
          /\ \E h \in Range(FindLinks(DocLines[i], 1)) : IsExternal(h)


-----------------------------------------------------------------------------
(* scan_repo *)

\* the characters of the names in code point order, as str compares them
CodePoints ==
    <<"#", "(", ")", "+", "-", ".", "/",
      "0","1","2","3","4","5","6","7","8","9", ":", "?",
      "A","B","C","D","E","F","G","H","I","J","K","L","M",
      "N","O","P","Q","R","S","T","U","V","W","X","Y","Z", "[", "]", "_",
      "a","b","c","d","e","f","g","h","i","j","k","l","m",
      "n","o","p","q","r","s","t","u","v","w","x","y","z">>

Ord(c) == CHOOSE k \in 1..Len(CodePoints) : CodePoints[k] = c

\* a < b for two strings
RECURSIVE StrLess(_, _)
StrLess(a, b) ==
    IF b = <<>> THEN FALSE
    ELSE IF a = <<>> THEN TRUE
    ELSE IF Head(a) # Head(b) THEN Ord(Head(a)) < Ord(Head(b))
    ELSE StrLess(Tail(a), Tail(b))

\* p < q for two paths: their parts compared in order
RECURSIVE PathLess(_, _)
PathLess(p, q) ==
    IF q = <<>> THEN FALSE
    ELSE IF p = <<>> THEN TRUE
    ELSE IF Head(p) # Head(q) THEN StrLess(Head(p), Head(q))
    ELSE PathLess(Tail(p), Tail(q))

\* sorted(S) for a set of paths
RECURSIVE SortPaths(_)
SortPaths(S) ==
    IF S = {} THEN <<>>
    ELSE LET least == CHOOSE x \in S : \A y \in S \ {x} : PathLess(x, y)
         IN  <<least>> \o SortPaths(S \ {least})

\* every file and directory below the root
AllPaths(f) == UNION {{SubSeq(q, 1, n) : n \in 1..Len(q)} : q \in DOMAIN f}

\* the suffixes of the patterns **/*.md, **/*.rst, **/*.adoc
Patterns == <<<<".","m","d">>, <<".","r","s","t">>, <<".","a","d","o","c">>>>

\* root.glob('**/*' + suffix): files and directories alike
Glob(f, suffix) ==
    {p \in AllPaths(f) : Exists(f, p) /\ EndsWith(p[Len(p)], suffix)}

n_git == <<".","g","i","t">>
n_node_modules == <<"n","o","d","e","_","m","o","d","u","l","e","s">>
n_pycache == <<"_","_","p","y","c","a","c","h","e","_","_">>

\* the parts of the resolved root itself
RootParts == <<<<"/">>, <<"w">>>>

\* any(p in doc.parts for p in ('.git', 'node_modules', '__pycache__'))
Excluded(p) ==
    \E k \in 1..Len(RootParts \o p) :
        (RootParts \o p)[k] \in {n_git, n_node_modules, n_pycache}

AtCeilingOffByOne(max, n) == 0 < max /\ max < n

\* 0 < max_docs <= result.docs_scanned
AtCeiling(max, n) == 0 < max /\ max <= n

\* result, root = ScanResult(), Path(root).resolve(); the first pattern's glob
StartScan ==
    /\ pc = "ready"
    /\ pc' = "loop"
    /\ issues' = <<>>
    /\ docs_scanned' = 0
    /\ processed' = <<>>
    /\ pat' = 1
    /\ queue' = SortPaths(Glob(fs, Patterns[1]))
    /\ UNCHANGED <<fs, doc, check_urls, net, probed, max_docs, detVars>>

\* the excluded document: continue
SkipExcluded ==
    /\ pc = "loop" /\ queue # <<>>
    /\ Excluded(Head(queue))
    /\ queue' = Tail(queue)
    /\ UNCHANGED <<fs, doc, check_urls, net, issues, probed, pc, max_docs, pat,
                   docs_scanned, processed, detVars>>

\* the ceiling is reached: break, which leaves the loop of this pattern only
BreakAtCeiling ==
    /\ pc = "loop" /\ queue # <<>>
    /\ ~Excluded(Head(queue))
    /\ AtCeiling(max_docs, docs_scanned)
    /\ queue' = <<>>
    /\ UNCHANGED <<fs, doc, check_urls, net, issues, probed, pc, max_docs, pat,
                   docs_scanned, processed, detVars>>

\* result.issues.extend(scan_doc(...)); result.docs_scanned += 1
ScanOne ==
    /\ pc = "loop" /\ queue # <<>>
    /\ ~Excluded(Head(queue))
    /\ ~AtCeiling(max_docs, docs_scanned)
    /\ Readable(fs, Head(queue))
    /\ LET r == scan_doc(fs, Head(queue), check_urls, net)
       IN  /\ issues' = issues \o r.issues
           /\ probed' = probed \o r.probed
    /\ docs_scanned' = docs_scanned + 1
    /\ processed' = Append(processed, Head(queue))
    /\ queue' = Tail(queue)
    /\ UNCHANGED <<fs, doc, check_urls, net, pc, max_docs, pat, detVars>>

\* read_text raises in scan_doc and nothing catches it: scan_repo raises
ScanRaises ==
    /\ pc = "loop" /\ queue # <<>>
    /\ ~Excluded(Head(queue))
    /\ ~AtCeiling(max_docs, docs_scanned)
    /\ ~Readable(fs, Head(queue))
    /\ pc' = "raised"
    /\ UNCHANGED <<fs, doc, check_urls, net, issues, probed, repoVars, detVars>>

\* the loop of one pattern is over: the next pattern's glob
NextPattern ==
    /\ pc = "loop" /\ queue = <<>>
    /\ pat < Len(Patterns)
    /\ pat' = pat + 1
    /\ queue' = SortPaths(Glob(fs, Patterns[pat + 1]))
    /\ UNCHANGED <<fs, doc, check_urls, net, issues, probed, pc, max_docs,
                   docs_scanned, processed, detVars>>

\* return result
ReturnResult ==
    /\ pc = "loop" /\ queue = <<>>
    /\ pat = Len(Patterns)
    /\ pc' = "returned"
    /\ UNCHANGED <<fs, doc, check_urls, net, issues, probed, repoVars, detVars>>

NextRepo ==
    \/ StartScan
    \/ SkipExcluded
    \/ BreakAtCeiling
    \/ ScanOne
    \/ ScanRaises
    \/ NextPattern
    \/ ReturnResult

(* Inputs of scan_repo *)

MaxCeiling == 3

t_clean == <<"t","e","x","t","\n">>
t_rotten == <<"[","a","]","(","n","o",".","m","d",")","\n">>
t_stale == <<"i","m","p","o","r","t"," ","m","\n">>

n_a_md == <<"a",".","m","d">>
n_c_rst == <<"c",".","r","s","t">>
n_e_adoc == <<"e",".","a","d","o","c">>
n_x_md == <<"x",".","m","d">>
n_z_md == <<"z",".","m","d">>

\* what each path of a repository may hold
Candidates ==
    (<<n_a_md>> :> {File(t_clean), File(t_rotten)})
    @@ (<<n_d, n_b_md>> :> {File(t_rotten)})
    @@ (<<n_c_rst>> :> {File(t_clean), File(t_stale)})
    @@ (<<n_e_adoc>> :> {File(t_rotten)})
    @@ (<<n_node_modules, n_x_md>> :> {File(t_rotten)})
    @@ (<<n_z_md>> :> {Dir})

Repos ==
    UNION {{f \in [P -> UNION {Candidates[p] : p \in P}] :
               \A p \in P : f[p] \in Candidates[p]} :
           P \in SUBSET DOMAIN Candidates}

InitRepo ==
    /\ fs \in Repos
    /\ max_docs \in 0..MaxCeiling
    /\ doc = <<>>
    /\ check_urls = FALSE
    /\ net = {}
    /\ issues = <<>>
    /\ probed = <<>>
    /\ pc = "ready"
    /\ pat = 0 /\ queue = <<>> /\ docs_scanned = 0 /\ processed = <<>>
    /\ IdleDetector

SpecRepo == InitRepo /\ [][NextRepo]_vars

\* the documents of the whole enumeration that are not excluded
Retained == {p \in UNION {Glob(fs, Patterns[k]) : k \in 1..Len(Patterns)} : ~Excluded(p)}

\* C1: docs_scanned never exceeds a positive ceiling, every processed document
\* is counted exactly once, and when scan_repo returns docs_scanned is
\* min(max_docs, number of non-excluded documents) over the whole enumeration,
\* or that number when max_docs is 0
C1_CeilingIsGlobal ==
    /\ max_docs > 0 => docs_scanned <= max_docs
    /\ docs_scanned = Len(processed)
    /\ \A i, j \in 1..Len(processed) : processed[i] = processed[j] => i = j
    /\ Range(processed) \subseteq Retained
    /\ pc = "returned" =>
          docs_scanned = IF max_docs > 0 /\ max_docs < Cardinality(Retained)
                         THEN max_docs ELSE Cardinality(Retained)

\* scan_repo returned at the ceiling, reached in the first group, with
\* documents of a later group left unscanned
C1_Witness ==
    /\ pc = "returned"
    /\ max_docs > 0
    /\ docs_scanned = max_docs
    /\ \A p \in Range(processed) : EndsWith(p[Len(p)], Patterns[1])
    /\ \E p \in Retained : EndsWith(p[Len(p)], Patterns[2])
    /\ \E p \in Retained : EndsWith(p[Len(p)], Patterns[3])

\* C2: a failure to read one enumerated document does not escape scan_repo:
\* the scan does not end in an error, and the issues of every other retained
\* document are in the result
C2_FailureIsIsolated ==
    /\ pc # "raised"
    /\ (pc = "returned" /\ max_docs = 0) =>
          \A p \in Retained :
              Readable(fs, p) =>
                  Range(scan_doc(fs, p, check_urls, net).issues) \subseteq Range(issues)


-----------------------------------------------------------------------------
(* The schema file .docrot-cli.yml *)

\* [item.strip() for item in items if item.strip()]
RECURSIVE StripItems(_)
StripItems(items) ==
    IF items = <<>> THEN <<>>
    ELSE (IF Strip(Head(items)) # <<>> THEN <<Strip(Head(items))>> ELSE <<>>)
         \o StripItems(Tail(items))

_parse_yaml_list(s0) ==
    LET s == Strip(s0)
    IN  IF StartsWith(s, <<"[">>) /\ EndsWith(s, <<"]">>)
        THEN StripItems(Split(SubSeq(s, 2, Len(s) - 1), ","))
        ELSE <<>>

kw_commands == <<"c","o","m","m","a","n","d","s",":">>
kw_flags == <<"f","l","a","g","s",":">>
kw_deprecated == <<"d","e","p","r","e","c","a","t","e","d",":">>

\* len(line) - len(line.lstrip())
Indent(line) == Len(line) - Len(LStrip(line))

\* the locals of _parse_cli_config before the first line
ParserStart ==
    [commands |-> <<>>, has_cmd |-> FALSE, current_cmd |-> <<>>, cmd_indent |-> 0,
     in_commands |-> FALSE, commands_indent |-> -1]

\* stripped.endswith(':') and not stripped.startswith(('flags:', 'deprecated:'))
OpensCommand(stripped) ==
    /\ EndsWith(stripped, <<":">>)
    /\ ~StartsWith(stripped, kw_flags)
    /\ ~StartsWith(stripped, kw_deprecated)

\* commands[name][field] = value
SetField(cmds, name, field, value) ==
    (name :> [cmds[name] EXCEPT ![field] = value]) @@ cmds

\* the body of the loop of _parse_cli_config for one line that is neither
\* skipped nor the one the loop breaks at
ParseLine(st, line) ==
    LET indent == Indent(line)
        stripped == Strip(line)
    IN  IF stripped = kw_commands
        THEN [st EXCEPT !.in_commands = TRUE, !.commands_indent = indent]
        ELSE IF ~st.in_commands THEN st
        ELSE IF OpensCommand(stripped)
        THEN LET name == Strip(SubSeq(stripped, 1, Len(stripped) - 1))
             IN  [st EXCEPT !.has_cmd = TRUE, !.current_cmd = name,
                            !.cmd_indent = indent,
                            !.commands = (name :> [flags |-> <<>>, deprecated |-> <<>>])
                                         @@ st.commands]
        ELSE IF st.has_cmd /\ indent > st.cmd_indent
        THEN IF StartsWith(stripped, kw_flags)
             THEN [st EXCEPT !.commands =
                      SetField(st.commands, st.current_cmd, "flags",
                               _parse_yaml_list(SubSeq(stripped, Len(kw_flags) + 1,
                                                       Len(stripped))))]
             ELSE IF StartsWith(stripped, kw_deprecated)
             THEN [st EXCEPT !.commands =
                      SetField(st.commands, st.current_cmd, "deprecated",
                               _parse_yaml_list(SubSeq(stripped, Len(kw_deprecated) + 1,
                                                       Len(stripped))))]
             ELSE st
        ELSE st

\* if not line.strip() or line.strip().startswith('#'): continue
SkippedLine(line) == Strip(line) = <<>> \/ StartsWith(Strip(line), <<"#">>)

\* if indent <= commands_indent: break
BreaksAt(st, line) ==
    /\ Strip(line) # kw_commands
    /\ st.in_commands
    /\ Indent(line) <= st.commands_indent

\* for line in text.split('\n'): ..., from line i on
RECURSIVE ParseLines(_, _, _)
ParseLines(lines, i, st) ==
    IF i > Len(lines) THEN st.commands
    ELSE IF SkippedLine(lines[i]) THEN ParseLines(lines, i + 1, st)
    ELSE IF BreaksAt(st, lines[i]) THEN st.commands
    ELSE ParseLines(lines, i + 1, ParseLine(st, lines[i]))

_parse_cli_config(text) == ParseLines(Split(text, "\n"), 1, ParserStart)

-----------------------------------------------------------------------------
(* CliCommandDetector *)

UpperSeq == <<"A","B","C","D","E","F","G","H","I","J","K","L","M",
              "N","O","P","Q","R","S","T","U","V","W","X","Y","Z">>

LowerSeq == <<"a","b","c","d","e","f","g","h","i","j","k","l","m",
              "n","o","p","q","r","s","t","u","v","w","x","y","z">>

\* str.lower()
ToLower(s) ==
    [i \in 1..Len(s) |->
        IF s[i] \in UpperChars
        THEN LowerSeq[CHOOSE k \in 1..Len(UpperSeq) : UpperSeq[k] = s[i]]
        ELSE s[i]]

SHELL_LANGS == {<<"b","a","s","h">>,
                <<"s","h","e","l","l">>,
                <<"s","h">>,
                <<"c","o","n","s","o","l","e">>,
                <<"z","s","h">>}

\* FENCE_LANG_RE.match(line).group(1) of a line that starts with a fence
FenceLang(line) == SubSeq(line, 4, SpanEnd(line, 4, WordChars) - 1)

PromptChars == {"$", ">"}

\* ln.strip().startswith('$') or ln.strip().startswith('>')
HasPrompt(content) ==
    Strip(content) # <<>> /\ Strip(content)[1] \in PromptChars

\* _is_shell_block; lines holds the <<line number, text>> pairs of the block
_is_shell_block(lang, lines) ==
    \/ ToLower(lang) \in SHELL_LANGS
    \/ lang = <<>> /\ \E k \in 1..Len(lines) : HasPrompt(lines[k][2])

CmdLineStripsDollarOnly(content) ==
    LET a == SpanEnd(content, 1, SpaceChars)
    IN  IF a <= Len(content) /\ content[a] = "$"
        THEN Strip(SubSeq(content, SpanEnd(content, a + 1, SpaceChars), Len(content)))
        ELSE Strip(content)

\* re.sub(r'^\s*[$>]\s*', '', content).strip()
CmdLine(content) ==
    LET a == SpanEnd(content, 1, SpaceChars)
    IN  IF a <= Len(content) /\ content[a] \in PromptChars
        THEN Strip(SubSeq(content, SpanEnd(content, a + 1, SpaceChars), Len(content)))
        ELSE Strip(content)

\* the length of the separator of re.split(r'\|{1,2}|&&|;') that starts at
\* position p, 0 if none does
SeparatorAt(s, p) ==
    IF StartsWithAt(s, p, <<"|", "|">>) THEN 2
    ELSE IF StartsWithAt(s, p, <<"|">>) THEN 1
    ELSE IF StartsWithAt(s, p, <<"&", "&">>) THEN 2
    ELSE IF StartsWithAt(s, p, <<";">>) THEN 1
    ELSE 0

\* re.split(r'\|{1,2}|&&|;', s): from is where the current piece starts and
\* p the position of the search
RECURSIVE SplitSegments(_, _, _)
SplitSegments(s, from, p) ==
    IF p > Len(s) THEN <<SubSeq(s, from, Len(s))>>
    ELSE IF SeparatorAt(s, p) > 0
         THEN <<SubSeq(s, from, p - 1)>>
              \o SplitSegments(s, p + SeparatorAt(s, p), p + SeparatorAt(s, p))
    ELSE SplitSegments(s, from, p + 1)

\* segment.split()[0].split('/')[-1] of a stripped, non-empty segment
CmdName(segment) ==
    LET first == SubSeq(segment, 1, FirstIn(segment, 1, SpaceChars) - 1)
        pieces == Split(first, "/")
    IN  pieces[Len(pieces)]

\* \b at the gap before position e
WordBoundary(s, e) ==
    (e - 1 >= 1 /\ e - 1 <= Len(s) /\ s[e - 1] \in WordChars)
        # (e <= Len(s) /\ s[e] \in WordChars)

\* CLI_FLAG_RE.match at position p: (--[a-zA-Z][\w-]*|-[a-zA-Z])\b
\* the greedy [\w-]* gives back characters until a word boundary follows
FlagMatchAt(s, p) ==
    LET letters == LowerChars \cup UpperChars
        far == SpanEnd(s, p + 3, WordChars \cup {"-"})
        ends == {e \in (p + 3)..far : WordBoundary(s, e)}
        last == CHOOSE e \in ends : \A x \in ends : x <= e
    IN  IF /\ StartsWithAt(s, p, <<"-", "-">>)
           /\ p + 2 <= Len(s) /\ s[p + 2] \in letters
           /\ ends # {}
        THEN [ok |-> TRUE, flag |-> SubSeq(s, p, last - 1), end |-> last - 1]
        ELSE IF /\ StartsWithAt(s, p, <<"-">>)
                /\ p + 1 <= Len(s) /\ s[p + 1] \in letters
                /\ WordBoundary(s, p + 2)
        THEN [ok |-> TRUE, flag |-> SubSeq(s, p, p + 1), end |-> p + 1]
        ELSE [ok |-> FALSE, flag |-> <<>>, end |-> p]

\* [fm.group(1) for fm in CLI_FLAG_RE.finditer(s)], from position p
RECURSIVE FindFlags(_, _)
FindFlags(s, p) ==
    IF p > Len(s) THEN <<>>
    ELSE LET m == FlagMatchAt(s, p)
         IN  IF m.ok THEN <<m.flag>> \o FindFlags(s, m.end + 1)
             ELSE FindFlags(s, p + 1)

FlagIssueUnknownFirst(flag, line_no, cmd_name, cfg, rel) ==
    IF flag \notin Range(cfg.flags)
    THEN <<Issue(rel, line_no, "CLI_FLAG_UNKNOWN",
                 <<"Unknown CLI flag", flag, cmd_name>>)>>
    ELSE IF flag \in Range(cfg.deprecated)
    THEN <<Issue(rel, line_no, "CLI_FLAG_DEPRECATED",
                 <<"Deprecated CLI flag", flag, cmd_name>>)>>
    ELSE <<>>

\* the issue of one flag of a segment of command cmd_name, cfg being
\* self.commands[cmd_name]
FlagIssue(flag, line_no, cmd_name, cfg, rel) ==
    IF flag \in Range(cfg.deprecated)
    THEN <<Issue(rel, line_no, "CLI_FLAG_DEPRECATED",
                 <<"Deprecated CLI flag", flag, cmd_name>>)>>
    ELSE IF flag \notin Range(cfg.flags)
    THEN <<Issue(rel, line_no, "CLI_FLAG_UNKNOWN",
                 <<"Unknown CLI flag", flag, cmd_name>>)>>
    ELSE <<>>

\* for fm in CLI_FLAG_RE.finditer(segment): ...
RECURSIVE FlagIssues(_, _, _, _, _)
FlagIssues(flags, line_no, cmd_name, cfg, rel) ==
    IF flags = <<>> THEN <<>>
    ELSE FlagIssue(Head(flags), line_no, cmd_name, cfg, rel)
         \o FlagIssues(Tail(flags), line_no, cmd_name, cfg, rel)

\* the body of the loop over the segments of a command line
SegmentIssues(raw, line_no, cmds, rel) ==
    LET segment == Strip(raw)
    IN  IF segment = <<>> THEN <<>>
        ELSE IF CmdName(segment) \notin DOMAIN cmds THEN <<>>
        ELSE FlagIssues(FindFlags(segment, 1), line_no, CmdName(segment),
                        cmds[CmdName(segment)], rel)

RECURSIVE SegmentsIssues(_, _, _, _)
SegmentsIssues(segments, line_no, cmds, rel) ==
    IF segments = <<>> THEN <<>>
    ELSE SegmentIssues(Head(segments), line_no, cmds, rel)
         \o SegmentsIssues(Tail(segments), line_no, cmds, rel)

\* _check_block(rel, lines)
RECURSIVE _check_block(_, _, _)
_check_block(rel, lines, cmds) ==
    IF lines = <<>> THEN <<>>
    ELSE LET line_no == Head(lines)[1]
             cmd_line == CmdLine(Head(lines)[2])
         IN  (IF cmd_line = <<>> \/ StartsWith(cmd_line, <<"#">>) THEN <<>>
              ELSE SegmentsIssues(SplitSegments(cmd_line, 1, 1), line_no, cmds, rel))
             \o _check_block(rel, Tail(lines), cmds)

\* the loop of detect over the lines, from line i on, with its locals
RECURSIVE DetectLines(_, _, _, _, _, _, _)
DetectLines(lines, i, in_block, block_lang, block_lines, rel, cmds) ==
    IF i > Len(lines) THEN <<>>
    ELSE IF StartsWith(lines[i], Fence)
         THEN IF in_block
              THEN (IF _is_shell_block(block_lang, block_lines)
                    THEN _check_block(rel, block_lines, cmds) ELSE <<>>)
                   \o DetectLines(lines, i + 1, FALSE, <<>>, <<>>, rel, cmds)
              ELSE DetectLines(lines, i + 1, TRUE, FenceLang(lines[i]), <<>>, rel, cmds)
    ELSE IF in_block
         THEN DetectLines(lines, i + 1, in_block, block_lang,
                          Append(block_lines, <<i, lines[i]>>), rel, cmds)
    ELSE DetectLines(lines, i + 1, in_block, block_lang, block_lines, rel, cmds)

\* the issues of detect for a document of this text, the schema being loaded
DetectText(cmds, rel, text) ==
    DetectLines(Split(text, "\n"), 1, FALSE, <<>>, <<>>, rel, cmds)

n_cfg == <<".","d","o","c","r","o","t","-","c","l","i",".","y","m","l">>

ConfigPath == <<n_cfg>>

detectLoadsLazily(det, f, d) ==
    IF ~det.set /\ ~Exists(f, ConfigPath) THEN [raised |-> FALSE, issues |-> <<>>]
    ELSE IF ~Readable(f, d) THEN [raised |-> TRUE, issues |-> <<>>]
    ELSE [raised |-> FALSE,
          issues |-> DetectText(IF det.set THEN det.map
                                ELSE _parse_cli_config(f[ConfigPath].text),
                                Join(d, "/"), f[d].text)]

\* detect(doc_path) of a detector whose commands is det: whether it raises,
\* and the issues it returns
detect(det, f, d) ==
    IF ~det.set THEN [raised |-> FALSE, issues |-> <<>>]
    ELSE IF ~Readable(f, d) THEN [raised |-> TRUE, issues |-> <<>>]
    ELSE [raised |-> FALSE, issues |-> DetectText(det.map, Join(d, "/"), f[d].text)]

\* CliCommandDetector(root), the schema path being a file or absent
Construct ==
    /\ pc = "new"
    /\ Exists(fs, ConfigPath) => Readable(fs, ConfigPath)
    /\ commands' = IF Exists(fs, ConfigPath)
                   THEN [set |-> TRUE, map |-> _parse_cli_config(fs[ConfigPath].text)]
                   ELSE NoCommands
    /\ built_absent' = ~Exists(fs, ConfigPath)
    /\ pc' = "built"
    /\ UNCHANGED <<fs, doc, check_urls, net, issues, probed, repoVars>>

\* a call detector.detect(d)
Detect(d) ==
    /\ pc \in {"built", "detected"}
    /\ LET r == detect(commands, fs, d)
       IN  /\ issues' = r.issues
           /\ pc' = IF r.raised THEN "raised" ELSE "detected"
    /\ doc' = d
    /\ UNCHANGED <<fs, check_urls, net, probed, repoVars, detVars>>


(* Inputs of the detector: two schemas, documents of shell examples *)

MaxCliLines == 3

cfg_app == <<"c","o","m","m","a","n","d","s",":","\n"," "," ","a","p","p",":","\n"," "," "," "," ","f","l","a","g","s",":"," ","[","-","-","f","o","r","m","a","t",","," ","-","v","]","\n"," "," "," "," ","d","e","p","r","e","c","a","t","e","d",":"," ","[","-","-","l","e","g","a","c","y","-","m","o","d","e","]","\n">>

cfg_both == <<"c","o","m","m","a","n","d","s",":","\n"," "," ","a","p","p",":","\n"," "," "," "," ","f","l","a","g","s",":"," ","[","-","-","f","o","r","m","a","t",","," ","-","-","n","o","p","e","]","\n"," "," "," "," ","d","e","p","r","e","c","a","t","e","d",":"," ","[","-","-","n","o","p","e","]","\n"," "," ","o","t","h","e","r",":","\n"," "," "," "," ","f","l","a","g","s",":"," ","[","-","-","z","z","]","\n">>

CliConfigs == {cfg_app, cfg_both}

l_fence_bash == <<BT,BT,BT,"b","a","s","h">>
c_ok == <<"a","p","p"," ","-","-","f","o","r","m","a","t"," ","j","s","o","n">>
c_nope == <<"a","p","p"," ","-","-","n","o","p","e">>
c_prompt_nope == <<"$"," ","a","p","p"," ","-","-","n","o","p","e">>
c_gt_dep == <<">"," ","a","p","p"," ","-","-","l","e","g","a","c","y","-","m","o","d","e">>
c_pipe == <<"x"," ","|"," ","b","i","n","/","a","p","p"," ","-","v"," ","-","-","n","o","p","e"," ","-","-","l","e","g","a","c","y","-","m","o","d","e",";"," ","o","t","h","e","r"," ","-","-","z","z">>
c_tricky == <<"a","p","p"," ","-","-","l","e","g","a","c","y","-","m","o","d","e","-"," ","-","a","b"," ","m","y","-","v">>
c_comment == <<"#"," ","a","p","p"," ","-","-","n","o","p","e">>

CliLines == {l_fence, l_fence_bash, l_fence_py, c_ok, c_nope, c_prompt_nope,
             c_gt_dep, c_pipe, c_tricky, c_comment}

InitCli ==
    /\ \E cfg \in CliConfigs, ls \in SeqsUpTo(CliLines, MaxCliLines) :
          fs = (ConfigPath :> File(cfg)) @@ (<<n_d, n_g_md>> :> File(TextOf(ls)))
    /\ doc = <<n_d, n_g_md>>
    /\ check_urls = FALSE
    /\ net = {}
    /\ issues = <<>>
    /\ probed = <<>>
    /\ pc = "new"
    /\ IdleRepo
    /\ IdleDetector

NextCli ==
    \/ Construct
    \/ Detect(doc)

SpecCli == InitCli /\ [][NextCli]_vars

(* Inputs for the classification of blocks: longer documents of fewer lines *)

MaxShellLines == 4

ShellLines == {l_fence, l_fence_bash, l_fence_py, c_nope, c_prompt_nope, c_gt_dep}

InitShell ==
    /\ \E cfg \in CliConfigs, ls \in SeqsUpTo(ShellLines, MaxShellLines) :
          fs = (ConfigPath :> File(cfg)) @@ (<<n_d, n_g_md>> :> File(TextOf(ls)))
    /\ doc = <<n_d, n_g_md>>
    /\ check_urls = FALSE
    /\ net = {}
    /\ issues = <<>>
    /\ probed = <<>>
    /\ pc = "new"
    /\ IdleRepo
    /\ IdleDetector

SpecShell == InitShell /\ [][NextCli]_vars

\* the block is a shell-example block: a shell language, or no language and a
\* member line that begins with a prompt
ShellBlock(lines, b) ==
    \/ ToLower(FenceLang(lines[b[1]])) \in SHELL_LANGS
    \/ /\ FenceLang(lines[b[1]]) = <<>>
       /\ \E j \in (b[1] + 1)..(b[2] - 1) : HasPrompt(lines[j])

\* line n is a member line of complete block b
MemberOf(n, b) == b[1] < n /\ n < b[2]

\* the <<command name, flag>> pairs of the segments, one per flag-shaped token
RECURSIVE SegmentPairs(_)
SegmentPairs(segments) ==
    IF segments = <<>> THEN <<>>
    ELSE LET segment == Strip(Head(segments))
             flags == FindFlags(segment, 1)
         IN  (IF segment = <<>> THEN <<>>
              ELSE [k \in 1..Len(flags) |-> <<CmdName(segment), flags[k]>>])
             \o SegmentPairs(Tail(segments))

\* the pairs of the command segments of one member line
LinePairs(content) ==
    IF CmdLine(content) = <<>> \/ StartsWith(CmdLine(content), <<"#">>) THEN <<>>
    ELSE SegmentPairs(SplitSegments(CmdLine(content), 1, 1))

\* what the schema says of a flag of a command
Verdict(cmds, pair) ==
    IF pair[1] \notin DOMAIN cmds THEN "none"
    ELSE IF pair[2] \in Range(cmds[pair[1]].deprecated) THEN "CLI_FLAG_DEPRECATED"
    ELSE IF pair[2] \notin Range(cmds[pair[1]].flags) THEN "CLI_FLAG_UNKNOWN"
    ELSE "none"

CountCli(n, kind, pair) ==
    Cardinality({k \in 1..Len(issues) :
                    /\ issues[k].line = n
                    /\ issues[k].kind = kind
                    /\ issues[k].message[3] = pair[1]
                    /\ issues[k].message[2] = pair[2]})

\* C5: in a shell-example block, each flag-shaped token of a segment whose
\* command is a key of the schema has exactly one CLI_FLAG_DEPRECATED issue
\* if it is deprecated, otherwise exactly one CLI_FLAG_UNKNOWN issue if it is
\* not a recognized flag, and no issue if it is recognized; a segment whose
\* command is not a key has no issue
C5_FlagVerdicts ==
    (pc = "detected" /\ commands.set) =>
        \A b \in Blocks(DocLines) :
            ShellBlock(DocLines, b) =>
                \A n \in (b[1] + 1)..(b[2] - 1) :
                    \A pair \in Range(LinePairs(DocLines[n])) :
                        \A kind \in {"CLI_FLAG_DEPRECATED", "CLI_FLAG_UNKNOWN"} :
                            CountCli(n, kind, pair) =
                                IF Verdict(commands.map, pair) = kind
                                THEN CountOf(LinePairs(DocLines[n]), pair)
                                ELSE 0

\* a scan that met, in one shell block, a deprecated flag, an unknown flag, a
\* recognized flag and a command that is not in the schema
C5_Witness ==
    /\ pc = "detected" /\ commands.set
    /\ \E b \in Blocks(DocLines) :
          /\ ShellBlock(DocLines, b)
          /\ \E n \in (b[1] + 1)..(b[2] - 1) :
                LET pairs == Range(LinePairs(DocLines[n]))
                IN  /\ \E pair \in pairs :
                          /\ Verdict(commands.map, pair) = "CLI_FLAG_DEPRECATED"
                          /\ CountCli(n, "CLI_FLAG_DEPRECATED", pair) = 1
                    /\ \E pair \in pairs :
                          /\ Verdict(commands.map, pair) = "CLI_FLAG_UNKNOWN"
                          /\ CountCli(n, "CLI_FLAG_UNKNOWN", pair) = 1
                    /\ \E pair \in pairs :
                          /\ pair[1] \in DOMAIN commands.map
                          /\ Verdict(commands.map, pair) = "none"
          /\ \E n \in (b[1] + 1)..(b[2] - 1) :
                \E pair \in Range(LinePairs(DocLines[n])) :
                    pair[1] \notin DOMAIN commands.map


\* the issues detect reports for the document with these lines
DetectOf(lines) == DetectText(commands.map, Join(doc, "/"), Join(lines, "\n"))

WithLine(lines, i, line) == [lines EXCEPT ![i] = line]

\* a command line written without a prompt
Bare(line) == ~IsFenceLine(line) /\ Strip(line) # <<>> /\ ~HasPrompt(line)

Prompts == {<<"$", " ">>, <<">", " ">>, <<"$">>}

\* line i is in a block without language whose member lines have no prompt
InUnpromptedPlainBlock(lines, i) ==
    \E b \in Blocks(lines) :
        /\ MemberOf(i, b)
        /\ FenceLang(lines[b[1]]) = <<>>
        /\ \A j \in (b[1] + 1)..(b[2] - 1) : ~HasPrompt(lines[j])

\* a block without language tag that contains a prompt-prefixed line reports
\* the same issues when it is labelled with a shell language
LabelChangesNothing ==
    \A b \in Blocks(DocLines) :
        (/\ DocLines[b[1]] = Fence
         /\ \E j \in (b[1] + 1)..(b[2] - 1) : HasPrompt(DocLines[j])) =>
            \A lang \in SHELL_LANGS :
                DetectOf(WithLine(DocLines, b[1], Fence \o lang)) = issues

\* no issue comes from a block whose opening fence declares a language that
\* is not a shell language
NonShellBlocksSilent ==
    \A k \in 1..Len(issues) :
        \A b \in Blocks(DocLines) :
            MemberOf(issues[k].line, b) =>
                \/ FenceLang(DocLines[b[1]]) = <<>>
                \/ ToLower(FenceLang(DocLines[b[1]])) \in SHELL_LANGS

\* C6 as stated: detect reports the same issues for a command line written
\* bare or with a leading prompt, the same issues for a block without
\* language tag that contains a prompt-prefixed line as for that block
\* labelled with a shell language, and none for a non-shell block
C6_PromptAndLabelAgree ==
    (pc = "detected" /\ commands.set) =>
        /\ \A i \in 1..Len(DocLines) :
              Bare(DocLines[i]) =>
                  \A pr \in Prompts :
                      DetectOf(WithLine(DocLines, i, pr \o DocLines[i])) = issues
        /\ LabelChangesNothing
        /\ NonShellBlocksSilent

\* C6 amended: the same, the first part for every command line but one in a
\* block without language tag whose lines have no prompt (there the prompt is
\* what makes the block a shell-example block)
C6_PromptAndLabelAgreeInShellBlocks ==
    (pc = "detected" /\ commands.set) =>
        /\ \A i \in 1..Len(DocLines) :
              (Bare(DocLines[i]) /\ ~InUnpromptedPlainBlock(DocLines, i)) =>
                  \A pr \in Prompts :
                      DetectOf(WithLine(DocLines, i, pr \o DocLines[i])) = issues
        /\ LabelChangesNothing
        /\ NonShellBlocksSilent

\* a scan that reported issues for a bare command line of a block without
\* language tag, the block being a shell-example block by another line's
\* prompt
C6_Witness ==
    /\ pc = "detected" /\ commands.set
    /\ \E b \in Blocks(DocLines) :
          /\ DocLines[b[1]] = Fence
          /\ \E i, j \in (b[1] + 1)..(b[2] - 1) :
                /\ Bare(DocLines[i]) /\ HasPrompt(DocLines[j])
                /\ \E k \in 1..Len(issues) : issues[k].line = i
                /\ \E k \in 1..Len(issues) : issues[k].line = j


-----------------------------------------------------------------------------
(* The life of one detector, the schema file coming and going *)

n_no_md == <<"n","o",".","m","d">>

t_bad_flags == <<BT,BT,BT,"b","a","s","h","\n","a","p","p"," ","-","-","n","o","p","e"," ","-","-","w","h","a","t","e","v","e","r","\n",BT,BT,BT,"\n">>
t_old_flag == <<BT,BT,BT,"\n",">"," ","a","p","p"," ","-","-","l","e","g","a","c","y","-","m","o","d","e","\n",BT,BT,BT,"\n">>
t_good_flag == <<BT,BT,BT,"s","h","\n","$"," ","a","p","p"," ","-","-","f","o","r","m","a","t","\n",BT,BT,BT,"\n">>

cfg_tool == <<"c","o","m","m","a","n","d","s",":","\n"," "," ","t","o","o","l",":","\n"," "," "," "," ","f","l","a","g","s",":"," ","[","-","-","x","]","\n">>
cfg_blank == <<"#"," ","n","o"," ","c","o","m","m","a","n","d","s"," ","y","e","t","\n">>

\* the schema files that come and go
LifeConfigs == CliConfigs \cup {cfg_tool, cfg_blank}

\* the documents detect is called on; no.md does not exist
LifeDocs == {<<n_d, n_g_md>>, <<n_a_md>>, <<n_r_md>>, <<n_no_md>>}

InitLife ==
    /\ \E cfgs \in {{}} \cup {{c} : c \in LifeConfigs} :
          fs = [p \in {ConfigPath : c \in cfgs} |-> File(CHOOSE c \in cfgs : TRUE)]
               @@ (<<n_d, n_g_md>> :> File(t_bad_flags))
               @@ (<<n_a_md>> :> File(t_old_flag))
               @@ (<<n_r_md>> :> File(t_good_flag))
    /\ doc = <<>>
    /\ check_urls = FALSE
    /\ net = {}
    /\ issues = <<>>
    /\ probed = <<>>
    /\ pc = "new"
    /\ IdleRepo
    /\ IdleDetector

\* somebody writes a schema file at the fixed location
WriteSchema ==
    /\ \E cfg \in LifeConfigs : fs' = (ConfigPath :> File(cfg)) @@ fs
    /\ UNCHANGED <<doc, check_urls, net, issues, probed, pc, repoVars, detVars>>

\* somebody removes the schema file
RemoveSchema ==
    /\ ConfigPath \in DOMAIN fs
    /\ fs' = [p \in DOMAIN fs \ {ConfigPath} |-> fs[p]]
    /\ UNCHANGED <<doc, check_urls, net, issues, probed, pc, repoVars, detVars>>

NextLife ==
    \/ Construct
    \/ \E d \in LifeDocs : Detect(d)
    \/ WriteSchema
    \/ RemoveSchema

SpecLife == InitLife /\ [][NextLife]_vars

\* C7: a detector constructed when the schema file is absent returns no issue
\* and raises no error in every later detect call, whatever the document and
\* whether or not a schema file exists by then
C7_InertForLife == built_absent => (pc # "raised" /\ issues = <<>>)

\* detect has run on the document of invalid flags, on a detector constructed
\* without schema file, after a schema file was written
C7_Witness ==
    /\ built_absent
    /\ pc = "detected"
    /\ Exists(fs, ConfigPath)
    /\ doc = <<n_d, n_g_md>>

-----------------------------------------------------------------------------
(* _parse_cli_config on schema files built from a few lines *)

MaxCfgLines == 5

k_commands == <<"c","o","m","m","a","n","d","s",":">>
k_app == <<" "," ","a","p","p",":">>
k_tool == <<" "," ","t","o","o","l",":">>
k_flags == <<" "," "," "," ","f","l","a","g","s",":"," ","[","-","-","a",","," ","-","b","]">>
k_dep == <<" "," "," "," ","d","e","p","r","e","c","a","t","e","d",":"," ","[","-","-","c","]">>
k_env == <<" "," "," "," ","e","n","v",":">>
k_deep_flags == <<" "," "," "," "," "," ","f","l","a","g","s",":"," ","[","-","-","z","]">>
k_other == <<"o","t","h","e","r",":">>

CfgLines == {k_commands, k_app, k_tool, k_flags, k_dep, k_env, k_deep_flags, k_other}

InitCfg ==
    /\ \E ls \in SeqsUpTo(CfgLines, MaxCfgLines) :
          \* a mapping has the commands: key at most once
          /\ CountOf(ls, k_commands) <= 1
          /\ fs = (ConfigPath :> File(TextOf(ls)))
    /\ doc = <<>>
    /\ check_urls = FALSE
    /\ net = {}
    /\ issues = <<>>
    /\ probed = <<>>
    /\ pc = "new"
    /\ IdleRepo
    /\ IdleDetector

NextCfg == Construct

SpecCfg == InitCfg /\ [][NextCfg]_vars

(* The two-level shape, read off the lines independently of the parser *)

CfgText == Split(fs[ConfigPath].text, "\n")

\* the lines that are neither blank nor comments
Significant(L) == {i \in 1..Len(L) : ~SkippedLine(L[i])}

\* the line of the top-level commands: key, 0 if there is none
CommandsLine(L) ==
    LET tops == {i \in Significant(L) : L[i] = kw_commands}
    IN  IF tops = {} THEN 0 ELSE Min(tops)

\* the significant lines after line i up to the next one indented no more
\* than w
Under(L, i, w) ==
    {j \in Significant(L) :
        /\ j > i
        /\ \A m \in Significant(L) : (i < m /\ m <= j) => Indent(L[m]) > w}

\* the lines of Under(L, i, w) at the least indentation found there
ChildrenOf(L, i, w) ==
    {j \in Under(L, i, w) : \A m \in Under(L, i, w) : Indent(L[j]) <= Indent(L[m])}

IsField(line, kw) == StartsWith(Strip(line), kw)

\* the keys that are direct children of the commands: mapping
CommandKeys(L) ==
    IF CommandsLine(L) = 0 THEN {}
    ELSE {j \in ChildrenOf(L, CommandsLine(L), 0) :
             /\ EndsWith(Strip(L[j]), <<":">>)
             /\ ~IsField(L[j], kw_flags) /\ ~IsField(L[j], kw_deprecated)}

KeyName(line) == Strip(SubSeq(Strip(line), 1, Len(Strip(line)) - 1))

\* the value of field kw of the command at line j: its last own field line
OwnField(L, j, kw) ==
    LET own == {m \in ChildrenOf(L, j, Indent(L[j])) : IsField(L[m], kw)}
        last == CHOOSE m \in own : \A x \in own : x <= m
    IN  IF own = {} THEN <<>>
        ELSE _parse_yaml_list(SubSeq(Strip(L[last]), Len(kw) + 1, Len(Strip(L[last]))))

\* C9: the command names _parse_cli_config produces are exactly the keys that
\* are direct children of the top-level commands: mapping, and each command's
\* flag sets come from its own flags: and deprecated: fields only; a key
\* nested deeper is ignored
C9_OnlyTwoLevelShape ==
    (pc = "built" /\ commands.set) =>
        /\ DOMAIN commands.map = {KeyName(CfgText[j]) : j \in CommandKeys(CfgText)}
        /\ \A j \in CommandKeys(CfgText) :
              (\A m \in CommandKeys(CfgText) : KeyName(CfgText[m]) = KeyName(CfgText[j]) => m <= j)
                  => /\ KeyName(CfgText[j]) \in DOMAIN commands.map
                     /\ commands.map[KeyName(CfgText[j])] =
                            [flags |-> OwnField(CfgText, j, kw_flags),
                             deprecated |-> OwnField(CfgText, j, kw_deprecated)]

=============================================================================
